---- MODULE Spec2Model ----
(***************************************************************************)
(* Peer replication of bioyino (src/src/peer.rs):                          *)
(*   - NativeProtocolServer: accepts peer connections, decodes capnp       *)
(*     frames and dispatches Tasks to worker channels round-robin;         *)
(*   - NativeProtocolSnapshot: on a timer, gathers a snapshot from every   *)
(*     worker and spawns one retried SnapshotSender per peer;              *)
(*   - SnapshotSender: connects, writes one Snapshot frame.                *)
(* Everything runs on one current_thread executor; worker channels are     *)
(* futures 0.1 bounded mpsc channels, reply channels are oneshots.         *)
(***************************************************************************)
EXTENDS Integers, Sequences, FiniteSets, TLC

\* ------------------------------------------------------------- bounds
\* number of worker channels (chans.len())
NumWorkers == 2
\* number of configured peers (nodes.len())
NumPeers == 2
\* timer ticks that may fire
MaxTicks == 2
\* inbound connections that may be accepted
MaxConns == 2
\* frames written by remote peers, over all inbound connections
MaxFrames == 3
\* buffer of a worker channel (mpsc::channel(buffer))
ChanBuffer == 1
\* the server and the coordinator run together: ticks, inbound connections
\* and inbound frames
WholeTicks == 1
WholeConns == 1
WholeFrames == 1

Workers == 1..NumWorkers
Peers == 1..NumPeers
Rounds == 1..MaxTicks
Conns == 1..MaxConns

\* ------------------------------------------------------------- data
\* A capnp metric entry on the wire; ok = FALSE: Metric::from_capnp fails.
E1 == [name |-> "a", val |-> 42, ok |-> TRUE]
E2 == [name |-> "b", val |-> 7, ok |-> TRUE]
EBad == [name |-> "z", val |-> 0, ok |-> FALSE]

\* Inbound frames a remote peer may write.  variant "Malformed": the
\* ReadStream or get_root fails; "NotInSchema": which() fails;
\* readable = FALSE: the union's payload pointer cannot be read.
Frame(v, es, rd) == [variant |-> v, entries |-> es, readable |-> rd]
FrameSet ==
    { Frame("Single", <<E1>>, TRUE),
      Frame("Single", <<EBad>>, TRUE),
      Frame("Multi", <<E1, EBad, E2>>, TRUE),
      Frame("Multi", <<E1>>, FALSE),
      Frame("Snapshot", <<E2, EBad, E1>>, TRUE),
      Frame("NotInSchema", <<>>, TRUE),
      Frame("Malformed", <<>>, TRUE) }

\* A Task (crate::task::Task).  src/seq tag the origin: connection and
\* frame number for a dispatched frame, 0 and round for TakeSnapshot.
Task(k, c, i, es) == [kind |-> k, src |-> c, seq |-> i, entries |-> es]

\* The aggregated state a worker may hold when it answers TakeSnapshot:
\* a Cache in its iteration order.
Caches(w) ==
    { <<>>,
      << [name |-> "a", val |-> w], [name |-> "b", val |-> 10 + w] >> }

NoReply == [st |-> "none", cache |-> <<>>]
Pending == [st |-> "pending", cache |-> <<>>]
Canceled == [st |-> "canceled", cache |-> <<>>]
Replied(c) == [st |-> "ok", cache |-> c]

VARIABLES
    chan,        \* worker channels: [queue, open, parked]
    runq,        \* futures spawned on the executor, not yet polled
    delivered,   \* per channel, every task enqueued so far, in order
    lost,        \* dispatches whose send failed
    srv,         \* inbound server: "listening" | "failed"
    conn,        \* inbound connections: [st, cursor, inbuf, partial]
    nframes,     \* frames written by remote peers so far
    dispatched,  \* log of the frames read: [conn, seq, frame, chan, spawned]
    fired,       \* timer deadlines elapsed
    round,       \* timer items consumed = rounds started
    coordPc,     \* coordinator: "timer" | "gather" | "dead"
    coordErr,    \* error the coordinator future ended with
    rstate,      \* per round: "idle" | "gather" | "failed" | "broadcast"
    reply,       \* per round and worker: the oneshot of TakeSnapshot
    metrics,     \* per round: the Arc<Vec<Cache>> once gathered
    snd,         \* per round and peer: the retried SnapshotSender
    opened,      \* log of outbound connections opened
    wire,        \* log of Snapshot frames written to peers (at: rounds started
                 \* by then; conn: the connection written to)
    net,         \* per peer: "up" | "down" | "flaky"
    PEER_ERRORS  \* the process-wide error counter

chanVars == <<chan, runq, delivered, lost>>
servVars == <<srv, conn, nframes, dispatched>>
snapVars == <<fired, round, coordPc, coordErr, rstate, reply, metrics, snd,
              opened, wire, net, PEER_ERRORS>>
vars == <<chanVars, servVars, snapVars>>


NoSender == [st |-> "none", attempt |-> 0, delay |-> 0, metrics |-> <<>>]
ClosedConn == [st |-> "none", cursor |-> 0, inbuf |-> <<>>, partial |-> <<>>]

Init ==
    /\ chan = [w \in Workers |-> [queue |-> <<>>, open |-> TRUE, parked |-> <<>>]]
    /\ runq = <<>>
    /\ delivered = [w \in Workers |-> <<>>]
    /\ lost = {}
    /\ srv = "listening"
    /\ conn = [c \in Conns |-> ClosedConn]
    /\ nframes = 0
    /\ dispatched = {}
    /\ fired = 0
    /\ round = 0
    /\ coordPc = "timer"
    /\ coordErr = "none"
    /\ rstate = [r \in Rounds |-> "idle"]
    /\ reply = [r \in Rounds |-> [w \in Workers |-> NoReply]]
    /\ metrics = [r \in Rounds |-> <<>>]
    /\ snd = [r \in Rounds |-> [p \in Peers |-> NoSender]]
    /\ opened = {}
    /\ wire = {}
    /\ net \in [Peers -> {"up", "down", "flaky"}]
    /\ PEER_ERRORS = 0

\* ------------------------------------------------ executor and channels
\* tokio current_thread::spawn: the future joins the executor's run queue;
\* the executor polls new futures in the order they were spawned.
spawn_lifo(q, fut) == <<fut>> \o q
spawn(q, fut) == Append(q, fut)

SendFuture(w, t) == [chan |-> w, task |-> t]

\* Sender::send on a Sender clone that has sent nothing yet (futures 0.1
\* mpsc): every sender owns one guaranteed slot, so the message is queued
\* whenever the receiver is alive; the sender is parked, and its future
\* stays pending, while the channel holds more than `buffer` messages.
start_send_unchecked(ch, t) ==
    [ok |-> TRUE,
     ch |-> [ch EXCEPT !.queue = Append(@, t),
                       !.parked = IF Len(ch.queue) + 1 > ChanBuffer
                                  THEN Append(@, [src |-> t.src, seq |-> t.seq])
                                  ELSE @]]
start_send(ch, t) ==
    IF ch.open
    THEN [ok |-> TRUE,
          ch |-> [ch EXCEPT
                    !.queue = Append(@, t),
                    !.parked = IF Len(ch.queue) + 1 > ChanBuffer
                               THEN Append(@, [src |-> t.src, seq |-> t.seq])
                               ELSE @]]
    ELSE [ok |-> FALSE, ch |-> ch]

\* The executor polls the oldest spawned send future.
PollSend ==
    /\ runq # <<>>
    /\ LET fut == Head(runq)
           w == fut.chan
           t == fut.task
           res == start_send(chan[w], t)
       IN /\ runq' = Tail(runq)
          /\ chan' = [chan EXCEPT ![w] = res.ch]
          /\ delivered' = IF res.ok
                          THEN [delivered EXCEPT ![w] = Append(@, t)]
                          ELSE delivered
          /\ lost' = IF ~res.ok /\ t.kind # "TakeSnapshot"
                     THEN lost \cup {[src |-> t.src, seq |-> t.seq]}
                     ELSE lost
             \* a failed send drops the Task and with it the oneshot sender
          /\ reply' = IF ~res.ok /\ t.kind = "TakeSnapshot"
                         /\ reply[t.seq][w].st = "pending"
                      THEN [reply EXCEPT ![t.seq][w] = Canceled]
                      ELSE reply
    /\ UNCHANGED <<servVars, fired, round, coordPc, coordErr, rstate, metrics,
                   snd, opened, wire, net, PEER_ERRORS>>

\* ------------------------------------------------------------ workers
\* What a worker may do with the oneshot of a TakeSnapshot: answer with its
\* current cache, or drop it.
ReplyChoices(t, w) ==
    IF t.kind = "TakeSnapshot"
    THEN {Replied(c) : c \in Caches(w)} \cup {Canceled}
    ELSE {NoReply}

\* The worker takes the next Task from its channel (Receiver::poll wakes
\* one parked sender per message taken).
WorkerRecv(w) ==
    /\ chan[w].open
    /\ chan[w].queue # <<>>
    /\ LET t == Head(chan[w].queue) IN
       \E res \in ReplyChoices(t, w) :
          /\ chan' = [chan EXCEPT ![w].queue = Tail(@),
                                  ![w].parked = IF @ = <<>> THEN @ ELSE Tail(@)]
          /\ reply' = IF t.kind = "TakeSnapshot" /\ rstate[t.seq] = "gather"
                         /\ reply[t.seq][w].st = "pending"
                      THEN [reply EXCEPT ![t.seq][w] = res]
                      ELSE reply
    /\ UNCHANGED <<runq, delivered, lost, servVars, fired, round, coordPc,
                   coordErr, rstate, metrics, snd, opened, wire, net,
                   PEER_ERRORS>>

HoldsTake(q, r) == \E i \in 1..Len(q) : q[i].kind = "TakeSnapshot" /\ q[i].seq = r

\* The worker goes away: its Receiver is dropped with everything queued.
WorkerGone(w) ==
    /\ chan[w].open
    /\ chan' = [chan EXCEPT ![w] = [queue |-> <<>>, open |-> FALSE, parked |-> <<>>]]
    /\ reply' = [r \in Rounds |-> [v \in Workers |->
                    IF v = w /\ reply[r][v].st = "pending" /\ HoldsTake(chan[w].queue, r)
                    THEN Canceled ELSE reply[r][v]]]
    /\ UNCHANGED <<runq, delivered, lost, servVars, fired, round, coordPc,
                   coordErr, rstate, metrics, snd, opened, wire, net,
                   PEER_ERRORS>>


\* ------------------------------------------------- Snapshot Coordinator
\* Interval: one more deadline elapses (missed deadlines stay due).
TimerFire ==
    /\ coordPc # "dead"
    /\ fired < MaxTicks
    /\ fired' = fired + 1
    /\ UNCHANGED <<chanVars, servVars, round, coordPc, coordErr, rstate, reply,
                   metrics, snd, opened, wire, net, PEER_ERRORS>>

\* The timer stream yields an error: for_each ends with PeerError::Timer.
TimerError ==
    /\ coordPc = "timer"
    /\ coordPc' = "dead"
    /\ coordErr' = "Timer"
    /\ UNCHANGED <<chanVars, servVars, fired, round, rstate, reply, metrics,
                   snd, opened, wire, net, PEER_ERRORS>>

\* chans.into_iter().map(|chan| { spawn(chan.send(TakeSnapshot(tx))); rx })
RECURSIVE SpawnTakes(_, _, _)
SpawnTakes(q, r, w) ==
    IF w > NumWorkers THEN q
    ELSE SpawnTakes(spawn(q, SendFuture(w, Task("TakeSnapshot", 0, r, <<>>))), r, w + 1)

\* The for_each closure runs for one timer item: fan out TakeSnapshot to
\* every worker channel and return the future that awaits the replies.
StartRound ==
    /\ coordPc = "timer"
    /\ round < fired
    /\ round' = round + 1
    /\ rstate' = [rstate EXCEPT ![round + 1] = "gather"]
    /\ reply' = [reply EXCEPT ![round + 1] = [w \in Workers |-> Pending]]
    /\ runq' = SpawnTakes(runq, round + 1, 1)
    /\ coordPc' = "gather"
    /\ UNCHANGED <<chan, delivered, lost, servVars, fired, coordErr, metrics,
                   snd, opened, wire, net, PEER_ERRORS>>

\* join_all over the oneshot receivers: an error as soon as one is
\* canceled, not ready while one is pending, else every value in order.
join_all_any(rs) ==
    IF \E w \in Workers : rs[w].st = "canceled" THEN "Err"
    ELSE IF \A w \in Workers : rs[w].st = "pending" THEN "NotReady"
    ELSE "Ok"
join_all(rs) ==
    IF \E w \in Workers : rs[w].st = "canceled" THEN "Err"
    ELSE IF \E w \in Workers : rs[w].st = "pending" THEN "NotReady"
    ELSE "Ok"

\* metrics.retain(|m| m.len() > 0) over the joined replies, in chans order
retain(rs) == SelectSeq([w \in Workers |-> rs[w].cache], LAMBDA c : Len(c) > 0)

\* PEER_ERRORS.fetch_add(1) in the map_err of get_metrics
gather_failed_uncounted(n) == n
gather_failed(n) == n + 1

\* gathering fails: the closure's future resolves to Err(TaskSend), which
\* for_each returns: the coordinator future ends.
GatherFail ==
    /\ coordPc = "gather"
    /\ join_all(reply[round]) = "Err"
    /\ PEER_ERRORS' = gather_failed(PEER_ERRORS)
    /\ rstate' = [rstate EXCEPT ![round] = "failed"]
    /\ coordPc' = "dead"
    /\ coordErr' = "TaskSend"
    /\ UNCHANGED <<chanVars, servVars, fired, round, reply, metrics, snd,
                   opened, wire, net>>

\* BackoffRetryBuilder { delay: 500, delay_mul: 2, delay_max: 5000, retries: 3 }
peer_client_ret_4 == [delay |-> 500, delay_mul |-> 2, delay_max |-> 5000, retries |-> 4]
peer_client_ret == [delay |-> 500, delay_mul |-> 2, delay_max |-> 5000, retries |-> 3]

RECURSIVE Pow(_, _)
Pow(b, e) == IF e = 0 THEN 1 ELSE b * Pow(b, e - 1)
Min(a, b) == IF a <= b THEN a ELSE b

\* Retry Policy: the delay before attempt k (k >= 1)
BackoffDelay(o, k) == Min(o.delay * Pow(o.delay_mul, k - 1), o.delay_max)

\* Retry Policy: the retried future as spawned, waiting before attempt 1
RetryStart(o, m) ==
    [st |-> "delay", attempt |-> 0, delay |-> BackoffDelay(o, 1), metrics |-> m]

\* Retry Policy: after the failure of attempt s.attempt
RetryFailed(o, s) ==
    IF s.attempt >= o.retries
    THEN [s EXCEPT !.st = "gaveup"]
    ELSE [s EXCEPT !.st = "delay", !.delay = BackoffDelay(o, s.attempt + 1)]

\* nodes.into_iter().map(|address| spawn(peer_client_ret.spawn(client)))
SpawnSendersResumed(m) ==
    [p \in Peers |->
        IF round > 1 /\ snd[round - 1][p].st \in {"delay", "gaveup"}
        THEN [snd[round - 1][p] EXCEPT !.st = "delay"]
        ELSE RetryStart(peer_client_ret, m)]
SpawnSendersIfAny(m) ==
    [p \in Peers |-> IF m = <<>> THEN NoSender ELSE RetryStart(peer_client_ret, m)]
SpawnSenders(m) == [p \in Peers |-> RetryStart(peer_client_ret, m)]

\* What the coordinator polls next once the senders are spawned: the
\* closure's future is done (Ok(())), so for_each polls the timer again.
AfterBroadcastJoined == "sending"
AfterBroadcast == "timer"

\* all replies are in: build the Arc and spawn one retried sender per peer
GatherDone ==
    /\ coordPc = "gather"
    /\ join_all(reply[round]) = "Ok"
    /\ metrics' = [metrics EXCEPT ![round] = retain(reply[round])]
    /\ snd' = [snd EXCEPT ![round] = SpawnSenders(retain(reply[round]))]
    /\ rstate' = [rstate EXCEPT ![round] = "broadcast"]
    /\ coordPc' = AfterBroadcast
    /\ UNCHANGED <<chanVars, servVars, fired, round, coordErr, reply, opened,
                   wire, net, PEER_ERRORS>>

\* ------------------------------------------------------- SnapshotSender
\* Each retried sender is a task of its own on the executor.
SenderRunnableInTurn(r, p) ==
    /\ snd[r][p].st = "delay"
    /\ \A q \in Peers : q < p => snd[r][q].st \in {"done", "gaveup"}
SenderRunnable(r, p) == snd[r][p].st = "delay"

\* The metrics an attempt of sender (r, p) holds: its clone of the Arc.
AttemptMetricsLatest(r, p) == metrics[round]
AttemptMetrics(r, p) == snd[r][p].metrics

\* metrics.iter().flat_map(|hmap| hmap.iter())
flat_map_first(m) == IF m = <<>> THEN <<>> ELSE Head(m)
RECURSIVE flat_map(_)
flat_map(m) == IF m = <<>> THEN <<>> ELSE Head(m) \o flat_map(Tail(m))

\* the Snapshot message built from the metrics: init_snapshot(flat_len),
\* then one entry per (name, metric) in order
snapshot_message(m) ==
    LET flat == flat_map(m) IN
    Frame("Snapshot",
          [i \in 1..Len(flat) |-> [name |-> flat[i].name, val |-> flat[i].val, ok |-> TRUE]],
          TRUE)

\* PEER_ERRORS.fetch_add(1) in the map_err of the sender
send_failed_none(n) == n
send_failed(n) == n + 1

\* How one attempt against peer p may end: a peer that is down refuses the
\* connection (or bound_stream fails), a flaky peer accepts it and may
\* break it during the write, a peer that is up takes the frame.
Outcomes(p) ==
    CASE net[p] = "up" -> {"ok"}
      [] net[p] = "down" -> {"connect_err"}
      [] OTHER -> {"ok", "write_err"}

\* The connection attempt k of the sender (r, p) works on: into_future
\* connects a new TcpStream each time it is called; the sender keeps none.
connect_pooled(r, p, k) == [round |-> 0, peer |-> p, attempt |-> 0]
connect(r, p, k) == [round |-> r, peer |-> p, attempt |-> k]

\* One attempt of the sender (r, p), from the expiry of the retry delay to
\* the result of the attempt's future: connect, build the Snapshot message,
\* codec.send; an error is counted and handed to the Retry Policy.
SendAttempt(r, p, out) ==
    LET k == snd[r][p].attempt + 1
        s == [snd[r][p] EXCEPT !.attempt = k]
        id == connect(r, p, k)
    IN
    /\ SenderRunnable(r, p)
    /\ out \in Outcomes(p)
    /\ opened' = IF out = "connect_err" THEN opened ELSE opened \cup {id}
    /\ wire' = IF out = "ok"
               THEN wire \cup {[round |-> r, peer |-> p, attempt |-> k, at |-> round,
                                conn |-> id,
                                frame |-> snapshot_message(AttemptMetrics(r, p))]}
               ELSE wire
    /\ PEER_ERRORS' = IF out = "ok" THEN PEER_ERRORS ELSE send_failed(PEER_ERRORS)
    /\ snd' = [snd EXCEPT ![r][p] = IF out = "ok"
                                    THEN [s EXCEPT !.st = "done"]
                                    ELSE RetryFailed(peer_client_ret, s)]
    /\ UNCHANGED <<chanVars, servVars, fired, round, coordPc, coordErr, rstate,
                   reply, metrics, net>>

SenderStep(r, p) == \E out \in {"ok", "connect_err", "write_err"} : SendAttempt(r, p, out)

\* -------------------------------------------------------- Inbound Server
\* Metric::from_capnp on one entry: the (name, metric) pair, or an error
from_capnp(e) ==
    IF e.ok THEN [ok |-> TRUE, pair |-> [name |-> e.name, metric |-> e.val]]
    ELSE [ok |-> FALSE, pair |-> [name |-> "", metric |-> 0]]

\* reader.iter().map(|r| from_capnp(r).map(|p| metrics.push(p))).last():
\* every entry is tried, the ones that decode are pushed in order
RECURSIVE decode_until_error(_)
decode_until_error(es) ==
    IF es = <<>> THEN <<>>
    ELSE LET d == from_capnp(Head(es)) IN
         IF d.ok THEN <<d.pair>> \o decode_until_error(Tail(es)) ELSE <<>>
RECURSIVE decode_all(_)
decode_all(es) ==
    IF es = <<>> THEN <<>>
    ELSE LET d == from_capnp(Head(es)) IN
         (IF d.ok THEN <<d.pair>> ELSE <<>>) \o decode_all(Tail(es))

TaskKindSwapped(variant) ==
    CASE variant = "Single" -> "AddMetric"
      [] variant = "Multi" -> "AddSnapshot"
      [] OTHER -> "AddMetrics"
TaskKind(variant) ==
    CASE variant = "Single" -> "AddMetric"
      [] variant = "Multi" -> "AddMetrics"
      [] OTHER -> "AddSnapshot"

\* parse_and_send: Err closes the connection; Ok has spawned one send of
\* the frame's Task on next_chan (tagged with connection c, frame i)
parse_and_send(reader, next_chan, c, i) ==
    IF reader.variant = "NotInSchema" \/ ~reader.readable
    THEN [ok |-> FALSE, spawned |-> <<>>]
    ELSE IF reader.variant = "Single"
    THEN LET d == from_capnp(reader.entries[1]) IN
         IF d.ok
         THEN [ok |-> TRUE,
               spawned |-> <<SendFuture(next_chan, Task(TaskKind("Single"), c, i, <<d.pair>>))>>]
         ELSE [ok |-> FALSE, spawned |-> <<>>]
    ELSE [ok |-> TRUE,
          spawned |-> <<SendFuture(next_chan,
                          Task(TaskKind(reader.variant), c, i, decode_all(reader.entries)))>>]

\* chans.into_iter().cycle(): the channel chans.next() yields when `cursor`
\* channels have been taken on this connection
next_chan_shifted(cursor) == ((cursor + 1) % NumWorkers) + 1
next_chan(cursor) == (cursor % NumWorkers) + 1

\* What an error of a connection's stream does to the server: the reader
\* is a task spawned on the executor, its error is logged by map_err and
\* ends that task alone; the listener's for_each has returned Ok(()).
receiver_failed_fatal(s) == "failed"
receiver_failed(s) == s

\* The dispatches of connection c that are still pending: spawned and not
\* yet polled, or parked on a channel that holds more than its buffer.
PendingSends(c) ==
    {runq[i].task.seq : i \in {j \in 1..Len(runq) : runq[j].task.src = c}}
    \cup UNION {{chan[w].parked[i].seq :
                    i \in {j \in 1..Len(chan[w].parked) : chan[w].parked[j].src = c}}
                : w \in Workers}

\* The dispatches the read loop of connection c waits for before it takes
\* the next frame: none, parse_and_send spawns the send and returns Ok(())
\* at once, so the future of the `then` closure is ready.
then_awaits_send(c) == PendingSends(c)
then_awaits(c) == {}

\* listener.incoming() yields a connection: a reader task is spawned with
\* its own cycle over the channels
Accept(c) ==
    /\ srv = "listening"
    /\ conn[c].st = "none"
    /\ c > 1 => conn[c - 1].st # "none"
    /\ conn' = [conn EXCEPT ![c].st = "open"]
    /\ UNCHANGED <<chanVars, srv, nframes, dispatched, snapVars>>

\* listener.incoming() yields an error: the server future ends with it
ListenerError ==
    /\ srv = "listening"
    /\ srv' = "failed"
    /\ UNCHANGED <<chanVars, conn, nframes, dispatched, snapVars>>

\* the remote peer starts to write a frame: its first bytes arrive
PeerWriteBegin(c, f) ==
    /\ conn[c].st = "open"
    /\ conn[c].partial = <<>>
    /\ nframes < MaxFrames
    /\ nframes' = nframes + 1
    /\ conn' = [conn EXCEPT ![c].partial = <<f>>]
    /\ UNCHANGED <<chanVars, srv, dispatched, snapVars>>

\* the rest of the frame arrives: the frame is complete in the buffer
PeerWriteEnd(c) ==
    /\ conn[c].st = "open"
    /\ conn[c].partial # <<>>
    /\ conn' = [conn EXCEPT ![c].inbuf = Append(@, conn[c].partial[1]),
                            ![c].partial = <<>>]
    /\ UNCHANGED <<chanVars, srv, nframes, dispatched, snapVars>>

\* the remote peer closes; the stream ends once the buffered frames are read
PeerClose(c) ==
    /\ conn[c].st = "open"
    /\ conn[c].inbuf = <<>>
    /\ conn' = [conn EXCEPT ![c].st = "closed", ![c].partial = <<>>]
    /\ UNCHANGED <<chanVars, srv, nframes, dispatched, snapVars>>

\* the reader task handles the next complete frame: the `then` closure
ReadFrame(c) ==
    /\ conn[c].st = "open"
    /\ conn[c].inbuf # <<>>
    /\ then_awaits(c) = {}
    /\ LET f == Head(conn[c].inbuf) IN
       IF f.variant = "Malformed"
       THEN /\ conn' = [conn EXCEPT ![c].st = "closed", ![c].inbuf = <<>>,
                                    ![c].partial = <<>>]
            /\ srv' = receiver_failed(srv)
            /\ dispatched' = dispatched \cup
                   {[conn |-> c, seq |-> conn[c].cursor + 1, frame |-> f,
                     chan |-> 0, spawned |-> <<>>]}
            /\ UNCHANGED runq
       ELSE LET i == conn[c].cursor + 1
                w == next_chan(conn[c].cursor)
                res == parse_and_send(f, w, c, i)
            IN /\ conn' = [conn EXCEPT
                             ![c].cursor = i,
                             ![c].st = IF res.ok THEN "open" ELSE "closed",
                             ![c].inbuf = IF res.ok THEN Tail(@) ELSE <<>>,
                             ![c].partial = IF res.ok THEN @ ELSE <<>>]
               /\ srv' = IF res.ok THEN srv ELSE receiver_failed(srv)
               /\ runq' = IF res.spawned = <<>> THEN runq
                          ELSE spawn(runq, res.spawned[1])
               /\ dispatched' = dispatched \cup
                      {[conn |-> c, seq |-> i, frame |-> f, chan |-> w,
                        spawned |-> res.spawned]}
    /\ UNCHANGED <<chan, delivered, lost, nframes, snapVars>>

ChanNext ==
    \/ PollSend
    \/ \E w \in Workers : WorkerRecv(w)
    \/ \E w \in Workers : WorkerGone(w)

SnapNext ==
    \/ TimerFire
    \/ TimerError
    \/ StartRound
    \/ GatherFail
    \/ GatherDone
    \/ \E r \in Rounds, p \in Peers : SenderStep(r, p)

\* the Snapshot Coordinator with its workers and peers
SnapSpec == Init /\ [][SnapNext \/ ChanNext]_vars

\* the same with one peer that is down and the others flaky, where every
\* attempt of a sender comes to an end: the retry delay expires and the
\* connect and the write succeed or fail, so a sender that has an attempt
\* to make is eventually polled through it
SnapFairInit == Init /\ net = [p \in Peers |-> IF p = 1 THEN "down" ELSE "flaky"]
SnapFairSpec ==
    /\ SnapFairInit /\ [][SnapNext \/ ChanNext]_vars
    /\ \A r \in Rounds, p \in Peers : WF_vars(SenderStep(r, p))


ServNext ==
    \/ \E c \in Conns : Accept(c)
    \/ ListenerError
    \/ \E c \in Conns, f \in FrameSet : PeerWriteBegin(c, f)
    \/ \E c \in Conns : PeerWriteEnd(c)
    \/ \E c \in Conns : PeerClose(c)
    \/ \E c \in Conns : ReadFrame(c)

\* the Inbound Server with its workers and remote peers
ServInit == Init /\ net = [p \in Peers |-> "up"]
ServSpec == ServInit /\ [][ServNext \/ ChanNext]_vars

Next == SnapNext \/ ServNext \/ ChanNext
Spec == Init /\ [][Next]_vars

\* The server and the coordinator on the one executor, sharing the worker
\* channels, with one peer down and the others flaky, for the first
\* WholeTicks ticks, WholeConns connections and WholeFrames frames.
Within ==
    /\ fired <= WholeTicks
    /\ nframes <= WholeFrames
    /\ \A c \in Conns : c > WholeConns => conn[c].st = "none"
WholeNext ==
    \/ TimerFire /\ Within'
    \/ TimerError
    \/ StartRound
    \/ GatherFail
    \/ GatherDone
    \/ \E r \in Rounds, p \in Peers : SenderStep(r, p)
    \/ \E c \in Conns : Accept(c) /\ Within'
    \/ ListenerError
    \/ \E c \in Conns, f \in FrameSet : PeerWriteBegin(c, f) /\ Within'
    \/ \E c \in Conns : PeerWriteEnd(c)
    \/ \E c \in Conns : PeerClose(c)
    \/ \E c \in Conns : ReadFrame(c)
    \/ ChanNext
WholeSpec == SnapFairInit /\ [][WholeNext]_vars


\* ===================================================================
\* Properties
\* ===================================================================

RoundHasTraffic(r) ==
    \/ \E a \in opened : a.round = r
    \/ \E f \in wire : f.round = r

\* C1: in every round, no connection is opened, no Snapshot frame is sent
\* and no sender exists before every worker's TakeSnapshot reply has been
\* received; a round with a missing or dropped reply sends nothing.
C1_Barrier ==
    \A r \in Rounds :
        /\ (RoundHasTraffic(r) \/ \E p \in Peers : snd[r][p].st # "none")
              => \A w \in Workers : reply[r][w].st = "ok"
        /\ (\E w \in Workers : reply[r][w].st \in {"pending", "canceled"})
              => ~RoundHasTraffic(r)
        /\ rstate[r] = "failed" => ~RoundHasTraffic(r)

\* a round fails with one reply in and one reply channel dropped, after an
\* earlier round did broadcast
C1_Witness ==
    /\ round = 2
    /\ RoundHasTraffic(1)
    /\ rstate[2] = "failed"
    /\ \E w \in Workers : reply[2][w].st = "ok"
    /\ \E w \in Workers : reply[2][w].st = "canceled"
    /\ ~RoundHasTraffic(2)

\* C2: after a round is aborted because a reply channel was dropped, the
\* coordinator keeps running; only a timer error ends it.
C2_CoordinatorSurvivesAbort ==
    \A r \in Rounds :
        rstate[r] = "failed" => (coordPc # "dead" \/ coordErr = "Timer")

\* C3: every frame written in round r, by any peer's sender at any attempt,
\* carries the snapshot gathered from the replies of round r.
C3_SameSnapshot ==
    /\ \A f \in wire : f.frame = snapshot_message(retain(reply[f.round]))
    /\ \A f, g \in wire : f.round = g.round => f.frame = g.frame

\* a retry of round 1 writes after round 2 has gathered a different snapshot
C3_Witness ==
    \E f \in wire :
        /\ f.round = 1
        /\ f.attempt >= 2
        /\ f.at = 2
        /\ rstate[2] = "broadcast"
        /\ metrics[2] # metrics[1]
        /\ \E g \in wire : g.round = 2

\* C4 (as stated): at every tick the coordinator starts a new round, even
\* while an earlier round is still waiting for worker replies or sending.
C4_NoRoundBlocksTimer ==
    (coordPc # "dead" /\ round < fired) => ENABLED StartRound

\* C4 (amended): a round that is sending or retrying never blocks the
\* timer: a due tick starts the next round while the senders of earlier
\* rounds are still running; a round that is still waiting for worker
\* replies does hold the next round back until its gathering ends.
C4_SendingNeverBlocksTimer ==
    /\ (coordPc # "dead" /\ round < fired /\ (round > 0 => rstate[round] # "gather"))
          => ENABLED StartRound
    /\ (round > 0 /\ rstate[round] = "gather") => ~ENABLED StartRound

\* round 2 has started while a sender of round 1 is still retrying
C4_Witness ==
    /\ round = 2
    /\ rstate[2] \in {"gather", "broadcast"}
    /\ \E p \in Peers : snd[1][p].st = "delay" /\ snd[1][p].attempt >= 1


FramesTo(r, p) == {f \in wire : f.round = r /\ f.peer = p}

\* C5: the sends of one round are independent: every peer's sender is
\* started with the round's broadcast, a sender that has work to do can
\* always take its next step whatever the other senders are doing, and the
\* send to a reachable peer never fails: its only step delivers the frame.
C5_PeerSendsIndependent ==
    \A r \in Rounds, b \in Peers :
        /\ rstate[r] = "broadcast" => snd[r][b].st # "none"
        /\ snd[r][b].st = "delay" => ENABLED SenderStep(r, b)
        /\ net[b] = "up" =>
              /\ snd[r][b].st # "gaveup"
              /\ snd[r][b].st = "delay" => ENABLED SendAttempt(r, b, "ok")
              /\ snd[r][b].st = "done" => Cardinality(FramesTo(r, b)) = 1

\* in round 1 A, which is down, gave up and B has its frame; in round 2 B
\* has its frame while A is still between its attempts
C5_Witness ==
    \E a, b \in Peers :
        /\ net[a] = "down" /\ net[b] = "up"
        /\ snd[1][a].st = "gaveup" /\ FramesTo(1, b) # {}
        /\ snd[2][a].st = "delay" /\ snd[2][a].attempt = 1 /\ FramesTo(2, b) # {}

\* C6: for a peer whose connection never succeeds, a round makes exactly 3
\* attempts (waiting 500, 1000, 2000 before them), then gives up and makes
\* no further attempt.
C6_ExactlyMaxAttempts ==
    \A r \in Rounds, p \in Peers :
        /\ snd[r][p].attempt <= 3
        /\ snd[r][p].st = "gaveup" => snd[r][p].attempt = 3
        /\ (net[p] = "down" /\ snd[r][p].st # "none") =>
              /\ snd[r][p].st \in {"delay", "gaveup"}
              /\ snd[r][p].st = "delay" =>
                    /\ snd[r][p].attempt < 3
                    /\ snd[r][p].delay = CASE snd[r][p].attempt = 0 -> 500
                                           [] snd[r][p].attempt = 1 -> 1000
                                           [] OTHER -> 2000
              /\ FramesTo(r, p) = {}

\* a sender to a peer that is down has given up after its third attempt
C6_Witness ==
    \E r \in Rounds, p \in Peers :
        /\ net[p] = "down"
        /\ snd[r][p].st = "gaveup"
        /\ snd[r][p].attempt = 3
        /\ PEER_ERRORS >= 3

RECURSIVE SumOver(_, _)
SumOver(S, f) ==
    IF S = {} THEN 0
    ELSE LET x == CHOOSE y \in S : TRUE IN f[x] + SumOver(S \ {x}, f)

\* C7: when one tick has run with all workers replying and every peer is
\* either reachable or never reachable, the counter holds one increment per
\* failed attempt to the unreachable peers and none for the reachable ones:
\* 3 per unreachable peer once the round's senders have finished (3 with
\* one reachable and one unreachable peer).
C7_ErrorsPerUnreachablePeer ==
    (/\ round = 1
     /\ rstate[1] = "broadcast"
     /\ \A p \in Peers : net[p] \in {"up", "down"})
    => /\ PEER_ERRORS =
            SumOver(Peers, [p \in Peers |-> IF net[p] = "down" THEN snd[1][p].attempt ELSE 0])
       /\ (\A p \in Peers : snd[1][p].st \in {"done", "gaveup"})
             => PEER_ERRORS = 3 * Cardinality({p \in Peers : net[p] = "down"})

\* two peers, one up and one down, one tick: the round is over, counter 3
C7_Witness ==
    /\ round = 1
    /\ fired = 1
    /\ \E a, b \in Peers :
          /\ Peers = {a, b} /\ a # b
          /\ net[a] = "down" /\ net[b] = "up"
          /\ snd[1][a].st = "gaveup"
          /\ snd[1][b].st = "done"
          /\ FramesTo(1, b) # {}
    /\ PEER_ERRORS = 3


\* the frame decodes successfully: a known variant whose payload can be
\* read and, for Single, whose one record decodes
Decodes(f) ==
    /\ f.variant \in {"Single", "Multi", "Snapshot"}
    /\ f.readable
    /\ f.variant = "Single" => f.entries[1].ok

\* every Task on its way to a worker or already queued for one
TasksOf(q) == {q[i] : i \in 1..Len(q)}
InboundTasks ==
    {t \in UNION {TasksOf(delivered[w]) : w \in Workers}
             \cup {fut.task : fut \in TasksOf(runq)} : t.kind # "TakeSnapshot"}

\* C8: a frame that decodes produces exactly one Task, of the kind its
\* variant fixes; a frame that does not decode, or is not yet complete or
\* read, produces none; no frame produces two Tasks.
C8_OneTaskPerFrame ==
    /\ \A d \in dispatched :
          IF Decodes(d.frame)
          THEN /\ Len(d.spawned) = 1
               /\ d.spawned[1].task.src = d.conn /\ d.spawned[1].task.seq = d.seq
               /\ d.spawned[1].task.kind =
                     CASE d.frame.variant = "Single" -> "AddMetric"
                       [] d.frame.variant = "Multi" -> "AddMetrics"
                       [] d.frame.variant = "Snapshot" -> "AddSnapshot"
          ELSE d.spawned = <<>>
    /\ \A d, e \in dispatched : (d.conn = e.conn /\ d.seq = e.seq) => d = e
    /\ \A t \in InboundTasks :
          \E d \in dispatched :
              d.conn = t.src /\ d.seq = t.seq /\ d.spawned = <<SendFuture(d.chan, t)>>
    /\ \A w \in Workers : \A i, j \in 1..Len(delivered[w]) :
          (delivered[w][i].src = delivered[w][j].src
             /\ delivered[w][i].seq = delivered[w][j].seq
             /\ delivered[w][i].src # 0) => i = j

KindsFrom(c) ==
    {t.kind : t \in {u \in UNION {TasksOf(delivered[w]) : w \in Workers} : u.src = c}}

\* the Single, Multi and Snapshot frames of one connection have each put
\* their one Task on a channel
C8_Witness ==
    \E c \in Conns :
        /\ KindsFrom(c) = {"AddMetric", "AddMetrics", "AddSnapshot"}
        /\ Cardinality({d \in dispatched : d.conn = c}) = 3

DispatchesOf(c) == {d \in dispatched : d.conn = c /\ d.spawned # <<>>}

\* C9: on every connection the i-th decoded frame goes to channel
\* (i-1) mod K (channels counted from 0), whatever the frame holds and
\* whatever other connections do; so the channels' shares of a connection's
\* N dispatches differ by at most one: floor(N/K) or ceil(N/K) each.
C9_RoundRobin ==
    \A c \in Conns :
        /\ \A d \in dispatched : d.spawned # <<>> =>
              /\ d.chan - 1 = (d.seq - 1) % NumWorkers
              /\ d.spawned[1].chan = d.chan
        /\ {d.seq : d \in DispatchesOf(c)} = 1..Cardinality(DispatchesOf(c))
        /\ LET N == Cardinality(DispatchesOf(c)) IN
           \A w \in Workers :
              LET n == Cardinality({d \in DispatchesOf(c) : d.chan = w}) IN
              /\ n >= N \div NumWorkers
              /\ n <= (N + NumWorkers - 1) \div NumWorkers

\* a connection has dispatched more frames than there are channels: the
\* rotation has wrapped around to the first channel
C9_Witness ==
    \E c \in Conns :
        /\ Cardinality(DispatchesOf(c)) > NumWorkers
        /\ \E d, e \in DispatchesOf(c) : d.seq = 1 /\ e.seq = NumWorkers + 1 /\ d.chan = 1 /\ e.chan = 1

\* C10: the Tasks of one connection reach a worker channel in the order
\* their frames arrived on the connection, also when the channel was
\* already full when a Task was dispatched.
C10_ArrivalOrder ==
    \A w \in Workers : \A i, j \in 1..Len(delivered[w]) :
        (i < j /\ delivered[w][i].src = delivered[w][j].src /\ delivered[w][i].src # 0)
            => delivered[w][i].seq < delivered[w][j].seq

\* two Tasks of one connection are in a channel that holds more than its
\* buffer: the later one was sent while the channel was full
C10_Witness ==
    \E w \in Workers, c \in Conns :
        /\ Len(chan[w].queue) > ChanBuffer
        /\ \E i, j \in 1..Len(chan[w].queue) :
              /\ i < j
              /\ chan[w].queue[i].src = c /\ chan[w].queue[j].src = c
              /\ chan[w].queue[i].seq < chan[w].queue[j].seq
        /\ \E x \in TasksOf(chan[w].parked) : x.src = c

\* the reader of connection c ended on a frame that did not decode
ErrorClosed(c) == \E d \in dispatched : d.conn = c /\ ~Decodes(d.frame)

\* the step is the reader of connection c ending on a decode error
ClosesOnError(c) ==
    /\ conn[c].st = "open"
    /\ conn'[c].st = "closed"
    /\ dispatched' # dispatched

\* C11: a decode error on a connection closes that connection and nothing
\* else: the step leaves the listener and every other connection as they
\* were, and afterwards a listening server still accepts the next
\* connection and every other open connection still reads its frames.
C11_DecodeErrorIsolated ==
    /\ [](\A c \in Conns : ErrorClosed(c) =>
            /\ conn[c].st = "closed"
            /\ \A d \in Conns \ {c} :
                  /\ (srv = "listening" /\ conn[d].st = "none"
                        /\ \A e \in Conns : e < d => conn[e].st # "none")
                        => ENABLED Accept(d)
                  /\ (conn[d].st = "open" /\ conn[d].inbuf # <<>>)
                        => ENABLED ReadFrame(d))
    /\ [][\A c \in Conns : ClosesOnError(c) =>
            /\ srv' = srv
            /\ \A d \in Conns \ {c} : conn'[d] = conn[d]]_vars

\* one connection was closed by a decode error; the server is listening
\* and another connection, which has dispatched a frame, has its next
\* frame ready to be read
C11_Witness ==
    \E c, d \in Conns :
        /\ c # d
        /\ ErrorClosed(c)
        /\ srv = "listening"
        /\ conn[d].st = "open"
        /\ DispatchesOf(d) # {}
        /\ conn[d].inbuf # <<>>
        /\ ENABLED ReadFrame(d)

\* a frame with intact boundaries that holds a record-level decode error:
\* a union variant outside the schema, or an entry from_capnp rejects
RecordLevelError(f) ==
    \/ f.variant = "NotInSchema"
    \/ /\ f.variant \in {"Single", "Multi", "Snapshot"}
       /\ f.readable
       /\ \E i \in 1..Len(f.entries) : ~f.entries[i].ok

\* C12: reading a frame with a record-level decode error does not close
\* the connection, whatever its variant: the connection stays open and
\* goes on with the frames behind it.
C12_RecordErrorKeepsConnection ==
    [][\A c \in Conns :
          (/\ conn[c].st = "open"
           /\ conn[c].inbuf # <<>>
           /\ RecordLevelError(Head(conn[c].inbuf))
           /\ conn'[c].cursor # conn[c].cursor)
          => /\ conn'[c].st = "open"
             /\ conn'[c].inbuf = Tail(conn[c].inbuf)]_vars

\* the entries of the replies of round r, from worker w on, in channel order
RECURSIVE RepliesFrom(_, _)
RepliesFrom(r, w) ==
    IF w > NumWorkers THEN <<>> ELSE reply[r][w].cache \o RepliesFrom(r, w + 1)

\* C13: a Snapshot frame written in round r holds exactly the entries of
\* the round's replies, worker by worker in channel order: as many entries
\* as the replies hold together, each with its name and record, an empty
\* reply adding none.
C13_FrameHoldsAllReplies ==
    \A f \in wire :
        LET all == RepliesFrom(f.round, 1)
            es == f.frame.entries
        IN /\ f.frame.variant = "Snapshot"
           /\ Len(es) = SumOver(Workers, [w \in Workers |-> Len(reply[f.round][w].cache)])
           /\ Len(es) = Len(all)
           /\ \A i \in 1..Len(es) : es[i].name = all[i].name /\ es[i].val = all[i].val

\* one frame holds the entries of two non-empty replies, the name both
\* workers hold twice; another frame is of a round where one worker's
\* reply was empty and holds the other worker's entries alone
C13_Witness ==
    \E f, g \in wire :
        /\ \A w \in Workers : reply[f.round][w].cache # <<>>
        /\ \E i, j \in 1..Len(f.frame.entries) :
              i < j /\ f.frame.entries[i].name = f.frame.entries[j].name
        /\ \E v, w \in Workers :
              /\ reply[g.round][v].cache = <<>>
              /\ reply[g.round][w].cache # <<>>
              /\ Len(g.frame.entries) = Len(reply[g.round][w].cache)

\* C14: the read loop never waits for a dispatch: a connection with a
\* complete frame in its buffer can always read it, whether or not earlier
\* dispatches of this or of another connection are still pending, spawned
\* and not yet polled or parked on a channel that holds more than its
\* buffer.
C14_ReadNeverWaitsForDispatch ==
    \A c \in Conns :
        (conn[c].st = "open" /\ conn[c].inbuf # <<>>) => ENABLED ReadFrame(c)

\* the dispatch of frame k of a connection is parked on a channel that
\* holds more than its buffer while frame k+1 of the connection has been
\* read and its Task has reached the next channel; another connection is
\* open beside it
C14_Witness ==
    \E c, d \in Conns : \E w, v \in Workers : \E k \in 1..MaxFrames :
        /\ c # d
        /\ conn[d].st = "open"
        /\ Len(chan[w].queue) > ChanBuffer
        /\ \E i \in 1..Len(chan[w].parked) :
              chan[w].parked[i].src = c /\ chan[w].parked[i].seq = k
        /\ k \in PendingSends(c)
        /\ \E i \in 1..Len(chan[v].queue) :
              chan[v].queue[i].src = c /\ chan[v].queue[i].seq = k + 1

DispatchId(c, i) == [src |-> c, seq |-> i]
\* the dispatches spawned so far, and where each has got to
Spawned == {DispatchId(d.conn, d.seq) : d \in {e \in dispatched : e.spawned # <<>>}}
Waiting == {DispatchId(runq[i].task.src, runq[i].task.seq) : i \in 1..Len(runq)}
Arrived ==
    UNION {{DispatchId(delivered[w][i].src, delivered[w][i].seq) : i \in 1..Len(delivered[w])}
           : w \in Workers}

\* C15: a dispatch to a channel whose receiver has been dropped fails and
\* its Task is lost: it never arrives on a channel and is not sent again;
\* a dropped receiver holds no Task.  The failing step touches neither the
\* connection nor the server, and the frames read after it are dispatched
\* to the next channels of the rotation as before.
C15_FailedDispatchIsDropped ==
    /\ [](/\ Spawned = Waiting \cup Arrived \cup lost
          /\ Waiting \cap Arrived = {} /\ Waiting \cap lost = {} /\ Arrived \cap lost = {}
          /\ \A w \in Workers : ~chan[w].open => chan[w].queue = <<>> /\ chan[w].parked = <<>>
          /\ \A l \in lost :
                /\ ~chan[((l.seq - 1) % NumWorkers) + 1].open
                /\ (conn[l.src].st = "open" /\ conn[l.src].inbuf # <<>>)
                      => ENABLED ReadFrame(l.src)
                /\ \A d \in dispatched :
                      (d.conn = l.src /\ d.seq > l.seq /\ d.spawned # <<>>)
                          => d.spawned[1].chan = ((d.seq - 1) % NumWorkers) + 1)
    /\ [][lost' # lost =>
            /\ Cardinality(lost') = Cardinality(lost) + 1
            /\ runq' = Tail(runq)
            /\ conn' = conn /\ srv' = srv /\ dispatched' = dispatched
            /\ delivered' = delivered]_vars

\* a dispatch of a connection was lost on a dropped receiver; the server
\* listens, the connection is open and its next frame has arrived on the
\* next channel of the rotation
C15_Witness ==
    \E l \in lost : \E w \in Workers :
        /\ srv = "listening"
        /\ conn[l.src].st = "open"
        /\ ~chan[((l.seq - 1) % NumWorkers) + 1].open
        /\ w = (l.seq % NumWorkers) + 1
        /\ DispatchId(l.src, l.seq + 1) \in
              {DispatchId(delivered[w][i].src, delivered[w][i].seq) : i \in 1..Len(delivered[w])}

\* the entries of a frame that decode, in the frame's order, as pairs
GoodEntries(es) ==
    LET good == SelectSeq(es, LAMBDA e : e.ok)
    IN [i \in 1..Len(good) |-> [name |-> good[i].name, metric |-> good[i].val]]

\* C16: the Task dispatched for a Multi or Snapshot frame carries exactly
\* the entries of the frame that decode, in the frame's order, also those
\* behind an entry that does not decode; the batch is dispatched even
\* when entries are bad, and arrives on its channel unchanged.
C16_BatchKeepsGoodEntries ==
    /\ \A d \in dispatched :
          (d.frame.variant \in {"Multi", "Snapshot"} /\ d.frame.readable) =>
              /\ Len(d.spawned) = 1
              /\ d.spawned[1].task.kind \in {"AddMetrics", "AddSnapshot"}
              /\ d.spawned[1].task.entries = GoodEntries(d.frame.entries)
    /\ \A w \in Workers : \A i \in 1..Len(delivered[w]) :
          \A d \in dispatched :
              (d.conn = delivered[w][i].src /\ d.seq = delivered[w][i].seq
                 /\ d.frame.variant \in {"Multi", "Snapshot"})
                  => delivered[w][i].entries = GoodEntries(d.frame.entries)

\* a Multi and a Snapshot frame, each with a bad entry between two good
\* ones, have arrived as Tasks holding the two good entries in order
C16_Witness ==
    \E d, e \in dispatched : \E v, w \in Workers :
        /\ d.frame.variant = "Multi" /\ e.frame.variant = "Snapshot"
        /\ \A f \in {d.frame, e.frame} :
              /\ Len(f.entries) = 3
              /\ f.entries[1].ok /\ ~f.entries[2].ok /\ f.entries[3].ok
        /\ \E i \in 1..Len(delivered[v]) :
              /\ delivered[v][i].src = d.conn /\ delivered[v][i].seq = d.seq
              /\ delivered[v][i].kind = "AddMetrics"
              /\ Len(delivered[v][i].entries) = 2
              /\ delivered[v][i].entries[2].name = d.frame.entries[3].name
        /\ \E i \in 1..Len(delivered[w]) :
              /\ delivered[w][i].src = e.conn /\ delivered[w][i].seq = e.seq
              /\ delivered[w][i].kind = "AddSnapshot"
              /\ Len(delivered[w][i].entries) = 2
              /\ delivered[w][i].entries[2].name = e.frame.entries[3].name

\* the attempts of sender (r, p) that got a connection
Connected(r, p) == IF net[p] = "down" THEN 0 ELSE snd[r][p].attempt

\* C17: every attempt, of any round, that connects opens a connection of
\* its own, and a connection carries at most one Snapshot frame: there are
\* as many connections as connected attempts, every frame is on the
\* connection its attempt opened, and no two frames share a connection or
\* an attempt.
C17_FreshConnectionOneFrame ==
    /\ Cardinality(opened) =
          SumOver(Rounds \X Peers, [x \in Rounds \X Peers |-> Connected(x[1], x[2])])
    /\ \A f \in wire :
          /\ f.conn \in opened
          /\ f.attempt <= snd[f.round][f.peer].attempt
    /\ \A f, g \in wire :
          (f.conn = g.conn
             \/ (f.round = g.round /\ f.peer = g.peer /\ f.attempt = g.attempt))
              => f = g
    /\ \A r \in Rounds, p \in Peers :
          /\ Cardinality(FramesTo(r, p)) <= 1
          /\ Cardinality(FramesTo(r, p)) <= Connected(r, p)

\* one peer has been connected to three times: a first attempt of round 1
\* whose write failed, its retry, and the attempt of round 2; the last two
\* wrote one frame each, on different connections
C17_Witness ==
    \E p \in Peers : \E f, g \in wire :
        /\ f.peer = p /\ g.peer = p
        /\ f.round = 1 /\ f.attempt = 2
        /\ g.round = 2
        /\ f.conn # g.conn
        /\ Cardinality({a \in opened : a.peer = p}) >= 3
        /\ Cardinality({h \in wire : h.peer = p}) = 2

Ended(r, p) == snd[r][p].st \in {"done", "gaveup"}

\* C18: when every attempt comes to an end, every sender that is started
\* ends, with its frame written or given up after the attempts the policy
\* allows, so that from some point on no sender has an attempt left to
\* make; a sender that has ended does nothing more;
\* the sender a round starts for a peer begins with no attempt made, the
\* first delay and the snapshot of its own round, whatever the sender of
\* an earlier round to that peer did or is still doing.
C18_SendersEndRoundsStartFresh ==
    /\ <>[](\A r \in Rounds, p \in Peers : snd[r][p].st # "delay")
    /\ [][\A r \in Rounds, p \in Peers :
            /\ Ended(r, p) => snd'[r][p] = snd[r][p]
            /\ (snd[r][p].st = "none" /\ snd'[r][p].st # "none") =>
                  snd'[r][p] = [st |-> "delay", attempt |-> 0, delay |-> 500,
                                metrics |-> retain(reply[r])]]_vars

\* the sender of round 1 to a peer that is down has given up, and round 2
\* has started a sender to that peer, which has made its first attempt
\* with the snapshot of round 2, another one than round 1's
C18_Witness ==
    \E p \in Peers :
        /\ net[p] = "down"
        /\ snd[1][p].st = "gaveup"
        /\ snd[2][p].st = "delay" /\ snd[2][p].attempt = 1
        /\ snd[2][p].metrics = retain(reply[2])
        /\ snd[2][p].metrics # snd[1][p].metrics

\* the attempts of sender (r, p) that have failed so far
FailedAttempts(r, p) == snd[r][p].attempt - (IF snd[r][p].st = "done" THEN 1 ELSE 0)

\* the step is an attempt of sender x = <<r, p>> that fails
AttemptFails(x) ==
    /\ snd'[x[1]][x[2]].attempt = snd[x[1]][x[2]].attempt + 1
    /\ snd'[x[1]][x[2]].st # "done"

\* the step is the gathering of round r failing
GatherFails(r) == rstate[r] = "gather" /\ rstate'[r] = "failed"

\* C19: the error counter is the number of failed send attempts plus the
\* number of rounds whose gathering failed: a step adds one to it when an
\* attempt fails or a gathering fails and leaves it alone otherwise; so it
\* never decreases, and a successful attempt, a successful gathering and
\* every step of the Inbound Server and of its dispatches leave it
\* unchanged.
C19_CounterCountsFailures ==
    /\ [](PEER_ERRORS =
            SumOver(Rounds \X Peers, [x \in Rounds \X Peers |-> FailedAttempts(x[1], x[2])])
            + Cardinality({r \in Rounds : rstate[r] = "failed"}))
    /\ [][PEER_ERRORS' = PEER_ERRORS
                          + Cardinality({x \in Rounds \X Peers : AttemptFails(x)})
                          + Cardinality({r \in Rounds : GatherFails(r)})]_vars
    /\ [][(\/ servVars' # servVars
           \/ lost' # lost
           \/ delivered' # delivered
           \/ \E r \in Rounds : rstate[r] = "gather" /\ rstate'[r] = "broadcast"
           \/ \E r \in Rounds, p \in Peers : snd[r][p].st # "done" /\ snd'[r][p].st = "done")
          => PEER_ERRORS' = PEER_ERRORS]_vars

\* the round was gathered and broadcast: the peer that is down was given
\* up after three failed attempts, a flaky peer took the frame at its
\* second attempt; meanwhile an inbound frame was read and its dispatch
\* failed on a dropped receiver: the counter is at four
C19_Witness ==
    /\ rstate[1] = "broadcast"
    /\ \E p, q \in Peers :
          /\ snd[1][p].st = "gaveup" /\ FailedAttempts(1, p) = 3
          /\ snd[1][q].st = "done" /\ snd[1][q].attempt = 2
    /\ dispatched # {}
    /\ lost # {}
    /\ PEER_ERRORS = 4

\* every worker answered the TakeSnapshot of round r with an empty snapshot
AllEmpty(r) ==
    /\ rstate[r] = "broadcast"
    /\ \A w \in Workers : reply[r][w] = Replied(<<>>)

\* C20: a round in which every reply is empty is broadcast like any other:
\* a sender is started for every peer and can make its attempts, a sender
\* that succeeds has written exactly one frame, and every frame of the
\* round is a Snapshot with no entries.
C20_EmptyRoundIsBroadcast ==
    \A r \in Rounds : AllEmpty(r) =>
        /\ metrics[r] = <<>>
        /\ \A p \in Peers :
              /\ snd[r][p].st # "none"
              /\ snd[r][p].st = "delay" => ENABLED SenderStep(r, p)
              /\ snd[r][p].st = "done" => Cardinality(FramesTo(r, p)) = 1
              /\ \A f \in FramesTo(r, p) :
                    f.frame.variant = "Snapshot" /\ f.frame.entries = <<>>

\* both peers have taken the empty Snapshot frame of a round whose replies
\* were all empty
C20_Witness ==
    \E r \in Rounds :
        /\ AllEmpty(r)
        /\ \A p \in Peers :
              /\ snd[r][p].st = "done"
              /\ \E f \in FramesTo(r, p) : Len(f.frame.entries) = 0

====
